---- MODULE Spec2Model ----
(***************************************************************************)
(* Single-instance coordination of the Atom of Thoughts servers.           *)
(*                                                                         *)
(* Part I  (SpecPort): processes racing for one TCP port.  Each contender  *)
(*   is either a WebSocketServer instance (src/src/websocket-server.ts)    *)
(*   or a visualize process (src/src/visualize.ts driving the              *)
(*   VisualizationServer of src/IMPLEMENTATION_SUMMARY.md); both use       *)
(*   isPortAvailable (src/src/port-checker.ts) before binding.             *)
(*                                                                         *)
(* Part II (SpecGraph): the VisualizationServer's graph state, its         *)
(*   socket.io fan-out and the observer page.                              *)
(*                                                                         *)
(* Part III (SpecBridge): one WebSocketServer with its client registry,    *)
(*   sendMessage and close().                                              *)
(*                                                                         *)
(* Part IV (SpecSup, SpecSupFair): the launcher (src/unnamed/part_000)     *)
(*   with its two children.                                                *)
(*                                                                         *)
(* Part V  (SpecWait): waitForServerOnPort and canConnectToPort.           *)
(***************************************************************************)
EXTENDS Integers, Sequences, FiniteSets, TLC

(***************************************************************************)
(* Bounds of the model.                                                    *)
(***************************************************************************)
NumWs == 2

WsInst == {<<"ws", n>> : n \in 1..NumWs}

VizProc == {<<"viz", 1>>, <<"viz", 2>>}

Callers == WsInst \cup VizProc

\* Everything that calls isPortAvailable: the contenders and the launcher.
Probers == Callers \cup {<<"launcher", 0>>}

VARIABLES
    bindErr,     \* what is wrong with the port: "none", "EACCES" (bind is refused),
                 \* or "ERR_SOCKET_BAD_PORT" (the number is not a legal port)
    holder,      \* the socket that has the port bound
    probe,       \* per caller: position inside isPortAvailable
    trialRes,    \* per caller: outcome of the trial socket's listen
    trialSaw,    \* per caller: the socket that held the port at that listen
    avail,       \* per caller: value isPortAvailable resolved with
    wsPc,        \* per WebSocketServer: position of init()
    initResult,  \* per WebSocketServer: what init() returned
    wss,         \* per WebSocketServer: this.wss ("null" or "server")
    wssEvent,    \* per WebSocketServer: event queued on this.wss
    bindRes,     \* per contender: outcome of its own (non-probe) bind
    vizPc,       \* per visualize process: position of main()
    started,     \* per visualize process: the local `started`
    exitCode,    \* per visualize process: process exit code, -1 while alive
    log,         \* per contender: messages written to stderr
    atoms,       \* VisualizationServer.atoms: atom id -> atom
    atomOrder,   \* VisualizationServer.atomOrder
    pubLog,      \* history: the atoms passed to updateAtom, in call order
    conn,        \* per observer: its socket.io connection ("none", "open", "closed")
    connAt,      \* history: Len(pubLog) when the connection was accepted
    connState,   \* history: the graph state when the connection was accepted
    sent,        \* per observer: every message emitted on its connection, in order
    recvd,       \* per observer: how many of them its page has handled
    pgAtoms,     \* per observer page: the global `atoms`
    pgOrder,     \* per observer page: the global `atomOrder`
    fetch,       \* per observer page: position of fetchAtoms()
    fetchAt,     \* history: Len(pubLog) when GET /api/atoms was served
    fetchResp,   \* per observer page: body of the /api/atoms response
    clients,     \* WebSocketServer.clients, in insertion order (Set iteration order)
    readyState,  \* per client socket: "none" before it connects, else its readyState
    cliEvent,    \* per client socket: event queued on it ("none", "error", "close")
    got,         \* per client socket: the frames its peer was sent, with call numbers
    sendCalls,   \* number of sendMessage calls made
    lastSend,    \* history: what the latest sendMessage call met and did
    closeCalls,  \* number of close() calls made
    closeSaw,    \* history: this.wss as the latest close() call found it
    hadEvent,    \* history: the client sockets whose 'close' or 'error' handler ran
    ctorResult,  \* how `new WebSocketServer(port)` ended: "none" before the call
    visualize,   \* launcher: argv.visualize
    mcpPortHeld, \* host: the MCP server's port is held by another instance
    supPc,       \* launcher: position of main()
    supState,    \* launcher process: "running" or "exited"
    supExit,     \* launcher process: exit code, -1 while alive
    teardownBy,  \* history: what called cleanup() first
    processes,   \* launcher: the `processes` array (names, in push order)
    child,       \* per child: "none", "running", "failed" (spawn error), "exited"
    childEvent,  \* per child: event queued for the launcher's handlers
    childCode,   \* per child: exit code reported with its 'exit' event
    killed,      \* per child: ChildProcess.killed
    killTried,   \* history, per child: number of kill() calls made on it
    killRaised,  \* history: the children whose kill() raised
    maxAttempts, \* waitForServerOnPort: its argument
    attempt,     \* waitForServerOnPort: the loop counter
    waitPc,      \* waitForServerOnPort: "idle", "connecting", "sleeping", "done"
    waitResult,  \* waitForServerOnPort: "none" until it returns, then "true"/"false"
    connPc,      \* canConnectToPort's promise of the current attempt
    connResult,  \* the value that promise resolved with
    timers,      \* attempts whose one-second timer has yet to fire
    serving,     \* host: a server accepts connections on the port
    outcomes     \* history: the values the canConnectToPort calls resolved with

portVars == <<bindErr, holder, probe, trialRes, trialSaw, avail, wsPc, initResult, wss, wssEvent,
              bindRes, vizPc, started, exitCode, log>>

graphVars == <<atoms, atomOrder, pubLog, conn, connAt, connState, sent, recvd,
               pgAtoms, pgOrder, fetch, fetchAt, fetchResp>>

bridgeVars == <<clients, readyState, cliEvent, got, sendCalls, lastSend, closeCalls,
                closeSaw, hadEvent, ctorResult>>

supVars == <<visualize, mcpPortHeld, supPc, supState, supExit, teardownBy, processes,
             child, childEvent, childCode, killed, killTried, killRaised>>

waitVars == <<maxAttempts, attempt, waitPc, waitResult, connPc, connResult, timers,
              serving, outcomes>>

nonPortVars == <<graphVars, bridgeVars, supVars, waitVars>>

nonGraphVars == <<portVars, bridgeVars, supVars, waitVars>>

vars == <<portVars, graphVars, bridgeVars, supVars, waitVars>>

(***************************************************************************)
(* The port namespace of the host.                                         *)
(***************************************************************************)
NoHolder == [owner |-> <<"none", 0>>, sock |-> "none"]

Sock(i, s) == [owner |-> i, sock |-> s]

\* bind(2)/listen(2) on the port as the kernel answers it.
BindResult(h, e) ==
    IF e # "none" THEN e
    ELSE IF h # NoHolder THEN "EADDRINUSE"
    ELSE "ok"

\* The port after process i has ended: its sockets are closed by the kernel.
ReleasedBy(h, i) == IF h.owner = i THEN NoHolder ELSE h

(***************************************************************************)
(* isPortAvailable (port-checker.ts).                                      *)
(***************************************************************************)
\* Mutant: every bind error is taken as "available".
ProbeErrorResolveAlways(code) == TRUE

\* server.once('error', ...): the value the promise resolves with.
ProbeErrorResolve(code) == IF code = "EADDRINUSE" THEN FALSE ELSE TRUE

\* server.listen(port) validates the port number before it binds and raises
\* ERR_SOCKET_BAD_PORT at once; any other failure arrives as an 'error' event.
ListenThrows(r) == r = "ERR_SOCKET_BAD_PORT"

\* The promise executor: createServer, register handlers, server.listen(port).
\* An exception of the executor rejects the promise.
ProbeCall(i) ==
    LET r == BindResult(holder, bindErr) IN
    /\ probe' = [probe EXCEPT ![i] = IF r = "ok" THEN "bound"
                                     ELSE IF ListenThrows(r) THEN "rejected"
                                     ELSE "failed"]
    /\ trialRes' = [trialRes EXCEPT ![i] = r]
    /\ trialSaw' = [trialSaw EXCEPT ![i] = holder]
    /\ holder' = IF r = "ok" THEN Sock(i, "probe") ELSE holder

\* Mutant: the 'listening' handler goes on without closing the trial socket.
ProbeOnListeningNoClose(i) ==
    /\ probe[i] = "bound"
    /\ probe' = [probe EXCEPT ![i] = "closing"]
    /\ UNCHANGED nonPortVars
    /\ UNCHANGED <<bindErr, holder, trialRes, trialSaw, avail, wsPc, initResult, wss,
                   wssEvent, bindRes, vizPc, started, exitCode, log>>

\* 'listening' handler: server.close(cb) releases the trial socket.
ProbeOnListening(i) ==
    /\ probe[i] = "bound"
    /\ probe' = [probe EXCEPT ![i] = "closing"]
    /\ holder' = IF holder = Sock(i, "probe") THEN NoHolder ELSE holder
    /\ UNCHANGED nonPortVars
    /\ UNCHANGED <<bindErr, trialRes, trialSaw, avail, wsPc, initResult, wss,
                   wssEvent, bindRes, vizPc, started, exitCode, log>>

\* close callback: resolve(true).
ProbeOnClose(i) ==
    /\ probe[i] = "closing"
    /\ probe' = [probe EXCEPT ![i] = "resolved"]
    /\ avail' = [avail EXCEPT ![i] = TRUE]
    /\ UNCHANGED nonPortVars
    /\ UNCHANGED <<bindErr, holder, trialRes, trialSaw, wsPc, initResult, wss,
                   wssEvent, bindRes, vizPc, started, exitCode, log>>

\* 'error' handler.
ProbeOnError(i) ==
    /\ probe[i] = "failed"
    /\ probe' = [probe EXCEPT ![i] = "resolved"]
    /\ avail' = [avail EXCEPT ![i] = ProbeErrorResolve(trialRes[i])]
    /\ UNCHANGED nonPortVars
    /\ UNCHANGED <<bindErr, holder, trialRes, trialSaw, wsPc, initResult, wss,
                   wssEvent, bindRes, vizPc, started, exitCode, log>>

(***************************************************************************)
(* WebSocketServer (websocket-server.ts).                                  *)
(***************************************************************************)
\* init() up to its first await: isPortAvailable(this.port) is called.  The
\* instance has the fields of lines 7-14: clients empty, wss null.
WsInit(i) ==
    /\ wsPc[i] = "unstarted"
    /\ wsPc' = [wsPc EXCEPT ![i] = "probing"]
    /\ ProbeCall(i)
    /\ UNCHANGED nonPortVars
    /\ UNCHANGED <<bindErr, avail, initResult, wss, wssEvent, bindRes,
                   vizPc, started, exitCode, log>>

\* What init() returns once `new WSServer({port})` has been evaluated; the
\* outcome r of the bind is not known to init, it arrives as an event later.
InitReturnAfterCreate(r) == "true"

\* init() after the await: the catch block when the probe raised; else
\* defer, or create the WSServer and return.
WsAfterProbe(i) ==
    /\ wsPc[i] = "probing"
    /\ probe[i] \in {"resolved", "rejected"}
    /\ wsPc' = [wsPc EXCEPT ![i] = "returned"]
    /\ IF probe[i] = "rejected"
       THEN /\ initResult' = [initResult EXCEPT ![i] = "false"]
            /\ log' = [log EXCEPT ![i] = @ \cup {"failed to initialize"}]
            /\ UNCHANGED <<holder, wss, wssEvent, bindRes>>
       ELSE IF ~avail[i]
       THEN /\ initResult' = [initResult EXCEPT ![i] = "false"]
            /\ log' = [log EXCEPT ![i] = @ \cup {"port in use", "will reuse"}]
            /\ UNCHANGED <<holder, wss, wssEvent, bindRes>>
       ELSE LET r == BindResult(holder, bindErr) IN
            /\ wss' = [wss EXCEPT ![i] = "server"]
            /\ bindRes' = [bindRes EXCEPT ![i] = r]
            /\ holder' = IF r = "ok" THEN Sock(i, "server") ELSE holder
            /\ wssEvent' = [wssEvent EXCEPT ![i] =
                              IF r = "ok" THEN "listening" ELSE "error"]
            /\ initResult' = [initResult EXCEPT ![i] = InitReturnAfterCreate(r)]
            /\ UNCHANGED log
    /\ UNCHANGED nonPortVars
    /\ UNCHANGED <<bindErr, probe, trialRes, trialSaw, avail, vizPc, started, exitCode>>

\* this.wss.on('listening', ...)
WssOnListening(i) ==
    /\ wssEvent[i] = "listening"
    /\ wssEvent' = [wssEvent EXCEPT ![i] = "none"]
    /\ log' = [log EXCEPT ![i] = @ \cup {"running"}]
    /\ UNCHANGED nonPortVars
    /\ UNCHANGED <<bindErr, holder, probe, trialRes, trialSaw, avail, wsPc, initResult, wss,
                   bindRes, vizPc, started, exitCode>>

\* this.wss.on('error', ...): the error is logged and nothing else changes.
WssOnError(i) ==
    /\ wssEvent[i] = "error"
    /\ wssEvent' = [wssEvent EXCEPT ![i] = "none"]
    /\ log' = [log EXCEPT ![i] = @ \cup {"server error"}]
    /\ UNCHANGED nonPortVars
    /\ UNCHANGED <<bindErr, holder, probe, trialRes, trialSaw, avail, wsPc, initResult, wss,
                   bindRes, vizPc, started, exitCode>>

(***************************************************************************)
(* visualize.ts main() with VisualizationServer.start().                   *)
(***************************************************************************)
\* VisualizationServer.start(): this.server.listen(port, cb) and no return
\* statement, so the call evaluates to undefined whatever the bind did.
StartReturn(r) == "undefined"

\* JavaScript truthiness of the values `started` can take.
Truthy(v) == v = "true"

\* main() up to its first await.
VizMain(j) ==
    /\ vizPc[j] = "unlaunched"
    /\ vizPc' = [vizPc EXCEPT ![j] = "probing"]
    /\ ProbeCall(j)
    /\ UNCHANGED nonPortVars
    /\ UNCHANGED <<bindErr, avail, wsPc, initResult, wss, wssEvent, bindRes,
                   started, exitCode, log>>

\* main() after the probe: the catch block (exit(1)) when the probe raised;
\* exit(0) when the port is taken, else construct
\* the server and call start(), whose listen binds at once.
VizAfterProbe(j) ==
    /\ vizPc[j] = "probing"
    /\ probe[j] \in {"resolved", "rejected"}
    /\ IF probe[j] = "rejected"
       THEN /\ vizPc' = [vizPc EXCEPT ![j] = "exited"]
            /\ exitCode' = [exitCode EXCEPT ![j] = 1]
            /\ log' = [log EXCEPT ![j] = @ \cup {"error starting"}]
            /\ UNCHANGED <<holder, bindRes, started>>
       ELSE IF ~avail[j]
       THEN /\ vizPc' = [vizPc EXCEPT ![j] = "exited"]
            /\ exitCode' = [exitCode EXCEPT ![j] = 0]
            /\ log' = [log EXCEPT ![j] = @ \cup {"port in use", "will exit"}]
            /\ UNCHANGED <<holder, bindRes, started>>
       ELSE LET r == BindResult(holder, bindErr) IN
            /\ vizPc' = [vizPc EXCEPT ![j] = "awaitStart"]
            /\ bindRes' = [bindRes EXCEPT ![j] = r]
            /\ holder' = IF r = "ok" THEN Sock(j, "server") ELSE holder
            /\ started' = [started EXCEPT ![j] = StartReturn(r)]
            /\ UNCHANGED <<exitCode, log>>
    /\ UNCHANGED nonPortVars
    /\ UNCHANGED <<bindErr, probe, trialRes, trialSaw, avail, wsPc, initResult, wss, wssEvent>>

\* main() after `await server.start()`: the continuation runs in the same
\* microtask checkpoint, before any event of the http server is emitted.
VizAfterStart(j) ==
    /\ vizPc[j] = "awaitStart"
    /\ IF ~Truthy(started[j])
       THEN /\ vizPc' = [vizPc EXCEPT ![j] = "exited"]
            /\ exitCode' = [exitCode EXCEPT ![j] = 1]
            /\ log' = [log EXCEPT ![j] = @ \cup {"failed to start"}]
            /\ holder' = ReleasedBy(holder, j)
       ELSE /\ vizPc' = [vizPc EXCEPT ![j] = "running"]
            /\ UNCHANGED <<exitCode, log, holder>>
    /\ UNCHANGED nonPortVars
    /\ UNCHANGED <<bindErr, probe, trialRes, trialSaw, avail, wsPc, initResult, wss, wssEvent,
                   bindRes, started>>

(***************************************************************************)
(* VisualizationServer (IMPLEMENTATION_SUMMARY.md): graph state, routes    *)
(* and socket.io fan-out.  An atom is modelled by its id, its content and  *)
(* its dependency list; the remaining fields are payload carried like      *)
(* content.  JSON transport keeps these fields as they are.  A producer    *)
(* publishes an atom in one of two versions, which differ in content and   *)
(* in dependencies.                                                        *)
(***************************************************************************)
MaxPublish == 3

AtomIds == {"a1", "a2"}

Versions == {[content |-> "c1", dependencies |-> <<>>],
             [content |-> "c2", dependencies |-> <<"a2">>]}

Atom == {[atomId |-> id, content |-> v.content, dependencies |-> v.dependencies] :
            id \in AtomIds, v \in Versions}

\* Sockets the server may see, and those among them that are observer pages.
Observers == {"o1", "o2"}

Pages == {"o1"}

EmptyMap == [k \in {} |-> k]

\* this.atoms[atom.atomId] = atom
MapPut(m, a) ==
    [k \in DOMAIN m \cup {a.atomId} |-> IF k = a.atomId THEN a ELSE m[k]]

\* Mutant: an update of a known id keeps the stored dependency list.
AtomsAfterKeepDeps(m, a) ==
    IF a.atomId \in DOMAIN m
    THEN MapPut(m, [a EXCEPT !.dependencies = m[a.atomId].dependencies])
    ELSE MapPut(m, a)

\* Mutant: first write wins, a known id is not overwritten.
AtomsAfterFirstWins(m, a) == IF a.atomId \in DOMAIN m THEN m ELSE MapPut(m, a)

\* Mutant: dependencies on ids that are not stored are dropped on store.
AtomsAfterDropUnknown(m, a) ==
    MapPut(m, [a EXCEPT !.dependencies =
                  SelectSeq(a.dependencies, LAMBDA d : d \in DOMAIN m)])

\* updateAtom's store into this.atoms.
AtomsAfter(m, a) == MapPut(m, a)

\* Object.values(map)
Values(m) == {m[k] : k \in DOMAIN m}

\* order.includes(id)
Includes(order, id) == \E k \in 1..Len(order) : order[k] = id

\* Mutant: the id is pushed on every update.
OrderAfterAlways(order, a) == Append(order, a.atomId)

\* Mutant: a republished id is moved to the end of the order.
OrderAfterMoveToEnd(order, a) ==
    Append(SelectSeq(order, LAMBDA x : x # a.atomId), a.atomId)

\* if (!this.atomOrder.includes(atom.atomId)) this.atomOrder.push(atom.atomId)
OrderAfter(order, a) ==
    IF ~Includes(order, a.atomId) THEN Append(order, a.atomId) ELSE order

\* The payload of 'atoms-update' and the body of GET /api/atoms.
Snapshot(m, order) == [atoms |-> Values(m), atomOrder |-> order]

SnapshotMsg(m, order) ==
    [type |-> "atoms-update", data |-> Snapshot(m, order)]

\* Mutant: the order is emitted before the atom.
UpdateMsgsOrderFirst(a, order) ==
    << [type |-> "atoms-order", data |-> order],
       [type |-> "atom-update", data |-> a] >>

\* The two events updateAtom emits, in emission order.
UpdateMsgs(a, order) ==
    << [type |-> "atom-update", data |-> a],
       [type |-> "atoms-order", data |-> order] >>

\* this.io.emit: to every socket connected at the time of the call.
Broadcast(msgs) ==
    [o \in Observers |-> IF conn[o] = "open" THEN sent[o] \o msgs ELSE sent[o]]

\* updateAtom(atom)
UpdateAtom(a) ==
    /\ Len(pubLog) < MaxPublish
    /\ atoms' = AtomsAfter(atoms, a)
    /\ atomOrder' = OrderAfter(atomOrder, a)
    /\ sent' = Broadcast(UpdateMsgs(a, atomOrder'))
    /\ pubLog' = Append(pubLog, a)
    /\ UNCHANGED <<conn, connAt, connState, recvd, pgAtoms, pgOrder, fetch,
                   fetchAt, fetchResp>>
    /\ UNCHANGED nonGraphVars

\* Mutant: the new socket is registered but gets no snapshot.
ConnectNoSnapshot(o) ==
    /\ conn[o] = "none"
    /\ conn' = [conn EXCEPT ![o] = "open"]
    /\ connAt' = [connAt EXCEPT ![o] = Len(pubLog)]
    /\ connState' = [connState EXCEPT ![o] = [atoms |-> atoms, atomOrder |-> atomOrder]]
    /\ UNCHANGED <<atoms, atomOrder, pubLog, sent, recvd, pgAtoms, pgOrder, fetch,
                   fetchAt, fetchResp>>
    /\ UNCHANGED nonGraphVars

\* io.on('connection', ...): socket.io has registered the socket for
\* broadcasts when the handler runs, and the handler emits the snapshot.
Connect(o) ==
    /\ conn[o] = "none"
    /\ conn' = [conn EXCEPT ![o] = "open"]
    /\ sent' = [sent EXCEPT ![o] = <<SnapshotMsg(atoms, atomOrder)>>]
    /\ connAt' = [connAt EXCEPT ![o] = Len(pubLog)]
    /\ connState' = [connState EXCEPT ![o] = [atoms |-> atoms, atomOrder |-> atomOrder]]
    /\ UNCHANGED <<atoms, atomOrder, pubLog, recvd, pgAtoms, pgOrder, fetch,
                   fetchAt, fetchResp>>
    /\ UNCHANGED nonGraphVars

\* The observer's socket goes away; socket.io drops it from the broadcasts.
Disconnect(o) ==
    /\ conn[o] = "open"
    /\ conn' = [conn EXCEPT ![o] = "closed"]
    /\ UNCHANGED <<atoms, atomOrder, pubLog, connAt, connState, sent, recvd,
                   pgAtoms, pgOrder, fetch, fetchAt, fetchResp>>
    /\ UNCHANGED nonGraphVars

\* app.get('/api/atoms', ...)
ApiAtoms(o) ==
    /\ fetch[o] = "requested"
    /\ fetch' = [fetch EXCEPT ![o] = "responded"]
    /\ fetchResp' = [fetchResp EXCEPT ![o] = Snapshot(atoms, atomOrder)]
    /\ fetchAt' = [fetchAt EXCEPT ![o] = Len(pubLog)]
    /\ UNCHANGED <<atoms, atomOrder, pubLog, conn, connAt, connState, sent,
                   recvd, pgAtoms, pgOrder>>
    /\ UNCHANGED nonGraphVars

(***************************************************************************)
(* The observer page (the script of generateHTML).                         *)
(***************************************************************************)
\* data.atoms.reduce((obj, atom) => { obj[atom.atomId] = atom; ... }, {})
FromArray(S) ==
    [k \in {a.atomId : a \in S} |-> CHOOSE a \in S : a.atomId = k]

\* data.atoms.forEach(atom => { atoms[atom.atomId] = atom })
MergeArray(m, S) ==
    [k \in DOMAIN m \cup {a.atomId : a \in S} |->
        IF k \in {a.atomId : a \in S} THEN FromArray(S)[k] ELSE m[k]]

\* window.onload -> initVisualization -> fetchAtoms(): the request leaves.
PageFetch(o) ==
    /\ fetch[o] = "none"
    /\ fetch' = [fetch EXCEPT ![o] = "requested"]
    /\ UNCHANGED <<atoms, atomOrder, pubLog, conn, connAt, connState, sent,
                   recvd, pgAtoms, pgOrder, fetchAt, fetchResp>>
    /\ UNCHANGED nonGraphVars

\* fetchAtoms' .then(data => ...): both globals are replaced by the response.
PageFetchThen(o) ==
    /\ fetch[o] = "responded"
    /\ fetch' = [fetch EXCEPT ![o] = "done"]
    /\ pgAtoms' = [pgAtoms EXCEPT ![o] = FromArray(fetchResp[o].atoms)]
    /\ pgOrder' = [pgOrder EXCEPT ![o] = fetchResp[o].atomOrder]
    /\ UNCHANGED <<atoms, atomOrder, pubLog, conn, connAt, connState, sent,
                   recvd, fetchAt, fetchResp>>
    /\ UNCHANGED nonGraphVars

\* The page's globals after one socket event.
PageAtomsOn(m, msg) ==
    IF msg.type = "atoms-update" THEN MergeArray(m, msg.data.atoms)
    ELSE IF msg.type = "atom-update" THEN MapPut(m, msg.data)
    ELSE m

PageOrderOn(order, msg) ==
    IF msg.type = "atoms-update" THEN msg.data.atomOrder
    ELSE IF msg.type = "atoms-order" THEN msg.data
    ELSE order

\* updateVisualization(): one link per dependency whose id the page holds.
Links(m) ==
    UNION { { [source |-> m[k].dependencies[n], target |-> k] :
                n \in {n \in 1..Len(m[k].dependencies) :
                          m[k].dependencies[n] \in DOMAIN m} } :
            k \in DOMAIN m }

\* socket.on(...): the next event of the connection reaches its handler.
PageOnEvent(o) ==
    /\ recvd[o] < Len(sent[o])
    /\ LET msg == sent[o][recvd[o] + 1] IN
       /\ pgAtoms' = [pgAtoms EXCEPT ![o] = PageAtomsOn(@, msg)]
       /\ pgOrder' = [pgOrder EXCEPT ![o] = PageOrderOn(@, msg)]
    /\ recvd' = [recvd EXCEPT ![o] = @ + 1]
    /\ UNCHANGED <<atoms, atomOrder, pubLog, conn, connAt, connState, sent,
                   fetch, fetchAt, fetchResp>>
    /\ UNCHANGED nonGraphVars

(***************************************************************************)
(* WebSocketServer (websocket-server.ts): the client registry, sendMessage *)
(* and close().  One instance, Bridge, is followed from init() on.         *)
(***************************************************************************)
MaxSend == 2

MaxClose == 2

Bridge == <<"ws", 1>>

External == <<"ext", 0>>

WsClients == {"k1", "k2"}

MsgTypes == {"atom-update"}

MsgData == {"d1", "d2"}

\* JSON.stringify({ type, data }): the text of the frame, token by token.
Stringify(t, d) == <<"{", "type", ":", t, ",", "data", ":", d, "}">>

\* this.clients.add(ws)
SetAdd(order, c) == IF c \in {order[k] : k \in 1..Len(order)} THEN order
                    ELSE Append(order, c)

\* this.clients.delete(ws)
SetDelete(order, c) == SelectSeq(order, LAMBDA x : x # c)

\* The registered sockets the forEach of sendMessage calls send() on.
OpenRegistered ==
    {clients[k] : k \in {k \in 1..Len(clients) : readyState[clients[k]] = "OPEN"}}

\* Mutant: the loop stops at the first send that fails and raises.
SendOutcomeFailFast(order, F) ==
    LET bad == {k \in 1..Len(order) : order[k] \in F}
        stop == IF bad = {} THEN Len(order) + 1
                ELSE CHOOSE k \in bad : \A m \in bad : k <= m
    IN  [delivered |-> {order[k] : k \in {k \in 1..Len(order) :
                            /\ k < stop
                            /\ readyState[order[k]] = "OPEN"}},
         raised |-> bad # {}]

\* this.clients.forEach(client => { if (client.readyState === 1)
\* client.send(message) }): F are the sockets whose write fails.  send()
\* reports a failed write through the socket's events, not by raising, so
\* every iteration runs.
SendOutcome(order, F) ==
    [delivered |-> {order[k] : k \in {k \in 1..Len(order) :
                            /\ readyState[order[k]] = "OPEN"
                            /\ order[k] \notin F}},
     raised |-> FALSE]

\* this.wss = null as unknown as WSServer (line 14)
CtorWss == "null"

\* this.wss.on(...) (line 16): a property read on null raises a TypeError.
CtorOutcome == IF CtorWss = "null" THEN "TypeError" ELSE "constructed"

\* new WebSocketServer(port).  init(), sendMessage and close() are followed
\* on an instance that has the fields of lines 7-14 whatever this call does.
WsConstruct ==
    /\ ctorResult = "none"
    /\ ctorResult' = CtorOutcome
    /\ UNCHANGED <<clients, readyState, cliEvent, got, sendCalls, lastSend, closeCalls,
                   closeSaw, hadEvent>>
    /\ UNCHANGED <<portVars, graphVars, supVars, waitVars>>

\* Another process of the host binds the port while it is free.
ExternalBinds ==
    /\ holder = NoHolder
    /\ holder' = Sock(External, "server")
    /\ UNCHANGED <<bindErr, probe, trialRes, trialSaw, avail, wsPc, initResult, wss,
                   wssEvent, bindRes, vizPc, started, exitCode, log>>
    /\ UNCHANGED <<graphVars, bridgeVars, supVars, waitVars>>

\* this.wss.on('connection', ws => ...): register ws and its two handlers.
WssOnConnection(c) ==
    /\ holder = Sock(Bridge, "server")
    /\ readyState[c] = "none"
    /\ readyState' = [readyState EXCEPT ![c] = "OPEN"]
    /\ clients' = SetAdd(clients, c)
    /\ UNCHANGED <<cliEvent, got, sendCalls, lastSend, closeCalls, closeSaw, hadEvent,
                   ctorResult>>
    /\ UNCHANGED <<portVars, graphVars, supVars, waitVars>>

\* The peer goes away: the socket closes and its 'close' event is queued.
PeerDrop(c) ==
    /\ readyState[c] = "OPEN"
    /\ readyState' = [readyState EXCEPT ![c] = "CLOSED"]
    /\ cliEvent' = [cliEvent EXCEPT ![c] = "close"]
    /\ UNCHANGED <<clients, got, sendCalls, lastSend, closeCalls, closeSaw, hadEvent,
                   ctorResult>>
    /\ UNCHANGED <<portVars, graphVars, supVars, waitVars>>

\* Mutant: the 'error' handler logs and leaves the socket registered.
ClientOnErrorKeep(c) ==
    /\ cliEvent[c] = "error"
    /\ cliEvent' = [cliEvent EXCEPT ![c] = "close"]
    /\ readyState' = [readyState EXCEPT ![c] = "CLOSED"]
    /\ hadEvent' = hadEvent \cup {c}
    /\ UNCHANGED <<clients, got, sendCalls, lastSend, closeCalls, closeSaw, ctorResult>>
    /\ UNCHANGED <<portVars, graphVars, supVars, waitVars>>

\* ws.on('error', ...): delete; the socket's 'close' event follows.
ClientOnError(c) ==
    /\ cliEvent[c] = "error"
    /\ clients' = SetDelete(clients, c)
    /\ cliEvent' = [cliEvent EXCEPT ![c] = "close"]
    /\ readyState' = [readyState EXCEPT ![c] = "CLOSED"]
    /\ hadEvent' = hadEvent \cup {c}
    /\ UNCHANGED <<got, sendCalls, lastSend, closeCalls, closeSaw, ctorResult>>
    /\ UNCHANGED <<portVars, graphVars, supVars, waitVars>>

\* ws.on('close', ...): delete.
ClientOnClose(c) ==
    /\ cliEvent[c] = "close"
    /\ clients' = SetDelete(clients, c)
    /\ cliEvent' = [cliEvent EXCEPT ![c] = "none"]
    /\ readyState' = [readyState EXCEPT ![c] = "CLOSED"]
    /\ hadEvent' = hadEvent \cup {c}
    /\ UNCHANGED <<got, sendCalls, lastSend, closeCalls, closeSaw, ctorResult>>
    /\ UNCHANGED <<portVars, graphVars, supVars, waitVars>>

\* sendMessage(type, data)
SendMessage(t, d) ==
    /\ sendCalls < MaxSend
    /\ sendCalls' = sendCalls + 1
    /\ IF Len(clients) = 0
       THEN /\ lastSend' = [n |-> sendCalls', msg |-> <<>>, targets |-> {},
                            failed |-> {}, raised |-> FALSE]
            /\ UNCHANGED <<readyState, cliEvent, got>>
       ELSE \E F \in SUBSET OpenRegistered :
            \E ev \in [F -> {"error", "close"}] :
                LET msg == Stringify(t, d)
                    out == SendOutcome(clients, F)
                IN  /\ got' = [c \in WsClients |->
                                  IF c \in out.delivered
                                  THEN Append(got[c], <<sendCalls', msg>>)
                                  ELSE got[c]]
                    /\ readyState' = [c \in WsClients |->
                                  IF c \in F THEN "CLOSING" ELSE readyState[c]]
                    /\ cliEvent' = [c \in WsClients |->
                                  IF c \in F THEN ev[c] ELSE cliEvent[c]]
                    /\ lastSend' = [n |-> sendCalls', msg |-> msg,
                                    targets |-> OpenRegistered, failed |-> F,
                                    raised |-> out.raised]
    /\ UNCHANGED <<clients, closeCalls, closeSaw, hadEvent, ctorResult>>
    /\ UNCHANGED <<portVars, graphVars, supVars, waitVars>>

\* What wss.close() of the installed ws does with the accepted sockets: ws 7
\* terminates them, ws 8 leaves them open; both provide the import of line 1.
CloseTerminates == BOOLEAN

\* close(): if (this.wss) this.wss.close().  The listening socket is closed;
\* this.wss and this.clients are left as they are, and the code closes no
\* accepted socket itself.
WsClose ==
    /\ closeCalls < MaxClose
    /\ closeCalls' = closeCalls + 1
    /\ closeSaw' = wss[Bridge]
    /\ IF wss[Bridge] # "null"
       THEN /\ holder' = IF holder = Sock(Bridge, "server") THEN NoHolder ELSE holder
            /\ \E term \in CloseTerminates :
                  /\ readyState' = [c \in WsClients |->
                        IF term /\ readyState[c] = "OPEN" THEN "CLOSING"
                        ELSE readyState[c]]
                  /\ cliEvent' = [c \in WsClients |->
                        IF term /\ readyState[c] = "OPEN" THEN "close"
                        ELSE cliEvent[c]]
       ELSE UNCHANGED <<holder, readyState, cliEvent>>
    /\ UNCHANGED <<clients, got, sendCalls, lastSend, hadEvent, ctorResult>>
    /\ UNCHANGED <<bindErr, probe, trialRes, trialSaw, avail, wsPc, initResult, wss,
                   wssEvent, bindRes, vizPc, started, exitCode, log>>
    /\ UNCHANGED <<graphVars, supVars, waitVars>>

(***************************************************************************)
(* The launcher (unnamed/part_000, lines 23-188): it forks the MCP server  *)
(* and, with --visualize, probes the visualization port and forks          *)
(* visualize.js.  The visualization child is the visualize process         *)
(* VizChild of Part I; the MCP server child is followed only as a process. *)
(***************************************************************************)
Launcher == <<"launcher", 0>>

VizChild == <<"viz", 1>>

McpName == "MCP server"

VizName == "Visualization server"

Children == {McpName, VizName}

\* What a fork() leads to: a running child, or an 'error' event.
ForkOutcomes == {"ok", "fail"}

\* What p.process.kill() does on a child that still runs.
KillOutcomes == {"sent", "throws"}

\* Exit codes the MCP server may end with (143: ended by SIGTERM).
McpCodes == {0, 1, 143}

\* p.process.kill() is reached and raises.
KillRaises(st, p, o) == ~st.killed[p] /\ child[p] = "running" /\ o = "throws"

\* One iteration of cleanup's forEach on child p, kill() having outcome o:
\* no call when `killed` is set; kill() on a child that has ended returns
\* false and leaves `killed` unset.
KillOne(st, p, o) ==
    IF st.killed[p] THEN st
    ELSE IF child[p] # "running"
         THEN [st EXCEPT !.tried[p] = @ + 1]
         ELSE IF KillRaises(st, p, o)
              THEN [st EXCEPT !.tried[p] = @ + 1, !.raised = @ \cup {p}]
              ELSE [st EXCEPT !.tried[p] = @ + 1, !.killed[p] = TRUE]

RECURSIVE KillEachFailFast(_, _, _)
\* Mutant: one try around the whole loop, the first kill() that raises
\* ends it.
KillEachFailFast(order, st, out) ==
    IF order = <<>> THEN st
    ELSE LET p == Head(order)
             nx == KillOne(st, p, out[p])
         IN  IF KillRaises(st, p, out[p]) THEN nx
             ELSE KillEachFailFast(Tail(order), nx, out)

RECURSIVE KillEach(_, _, _)
\* processes.forEach(p => { try { if (!p.process.killed) p.process.kill() }
\* catch (err) { ... } })
KillEach(order, st, out) ==
    IF order = <<>> THEN st
    ELSE KillEach(Tail(order), KillOne(st, Head(order), out[Head(order)]), out)

\* cleanup(): the loop, then process.exit(0).  process.exit emits 'exit',
\* for which cleanup is registered too (line 89): the loop runs a second
\* time, on the children whose `killed` is still false, and the nested
\* process.exit(0) ends the process.
Cleanup(cause) ==
    /\ \E o1, o2 \in [Children -> KillOutcomes] :
          LET st0 == [killed |-> killed, tried |-> killTried, raised |-> killRaised]
              st1 == KillEach(processes, st0, o1)
              st2 == KillEach(processes, st1, o2)
          IN  /\ killed' = st2.killed
              /\ killTried' = st2.tried
              /\ killRaised' = st2.raised
    /\ supState' = "exited"
    /\ supExit' = 0
    /\ teardownBy' = cause
    /\ holder' = ReleasedBy(holder, Launcher)
    /\ UNCHANGED <<visualize, mcpPortHeld, supPc, processes, child, childEvent, childCode>>
    /\ UNCHANGED <<bindErr, probe, trialRes, trialSaw, avail, wsPc, initResult, wss,
                   wssEvent, bindRes, vizPc, started, exitCode, log>>
    /\ UNCHANGED <<graphVars, bridgeVars, waitVars>>

\* Mutant: the visualization server is started whatever the flag says.
VisualizeAlways == TRUE

\* if (argv.visualize)
VisualizeRequested == visualize

\* main() up to its first suspension: launchMcpServer() forks without a
\* probe; with --visualize, launchVisualizationServer() is entered and
\* calls isPortAvailable(argv.port).
SupMain ==
    /\ supState = "running"
    /\ supPc = "start"
    /\ \E f \in ForkOutcomes :
          /\ child' = [child EXCEPT ![McpName] = IF f = "ok" THEN "running" ELSE "failed"]
          /\ childEvent' = [childEvent EXCEPT ![McpName] =
                               IF f = "ok" THEN "none" ELSE "error"]
    /\ processes' = Append(processes, McpName)
    /\ IF VisualizeRequested
       THEN /\ supPc' = "probing"
            /\ ProbeCall(Launcher)
            /\ log' = [log EXCEPT ![Launcher] = @ \cup {"starting visualization"}]
       ELSE /\ supPc' = "done"
            /\ log' = [log EXCEPT ![Launcher] = @ \cup {"all started"}]
            /\ UNCHANGED <<probe, trialRes, trialSaw, holder>>
    /\ UNCHANGED <<visualize, mcpPortHeld, supState, supExit, teardownBy, childCode,
                   killed, killTried, killRaised>>
    /\ UNCHANGED <<bindErr, avail, wsPc, initResult, wss, wssEvent, bindRes, vizPc,
                   started, exitCode>>
    /\ UNCHANGED <<graphVars, bridgeVars, waitVars>>

\* launchVisualizationServer() after the probe (its catch block when the
\* probe raised), and main() after it when it returned null.
SupAfterProbe ==
    /\ supState = "running"
    /\ supPc = "probing"
    /\ probe[Launcher] \in {"resolved", "rejected"}
    /\ IF probe[Launcher] = "rejected"
       THEN /\ supPc' = "done"
            /\ log' = [log EXCEPT ![Launcher] = @ \cup
                          {"error launching visualization",
                           "using existing visualization", "all started"}]
            /\ UNCHANGED <<processes, child, childEvent>>
       ELSE IF ~avail[Launcher]
       THEN /\ supPc' = "done"
            /\ log' = [log EXCEPT ![Launcher] = @ \cup
                          {"port in use", "will reuse", "using existing visualization",
                           "all started"}]
            /\ UNCHANGED <<processes, child, childEvent>>
       ELSE /\ supPc' = "waiting"
            /\ \E f \in ForkOutcomes :
                  /\ child' = [child EXCEPT ![VizName] =
                                  IF f = "ok" THEN "running" ELSE "failed"]
                  /\ childEvent' = [childEvent EXCEPT ![VizName] =
                                       IF f = "ok" THEN "none" ELSE "error"]
            /\ processes' = Append(processes, VizName)
            /\ UNCHANGED log
    /\ UNCHANGED <<visualize, mcpPortHeld, supState, supExit, teardownBy, childCode,
                   killed, killTried, killRaised>>
    /\ UNCHANGED <<bindErr, holder, probe, trialRes, trialSaw, avail, wsPc, initResult,
                   wss, wssEvent, bindRes, vizPc, started, exitCode>>
    /\ UNCHANGED <<graphVars, bridgeVars, waitVars>>

\* The one-second timer of line 149 fires: the process is returned and
\* main() announces the visualization.
SupAfterWait ==
    /\ supState = "running"
    /\ supPc = "waiting"
    /\ supPc' = "done"
    /\ log' = [log EXCEPT ![Launcher] = @ \cup {"visualization available", "all started"}]
    /\ UNCHANGED <<visualize, mcpPortHeld, supState, supExit, teardownBy, processes,
                   child, childEvent, childCode, killed, killTried, killRaised>>
    /\ UNCHANGED <<bindErr, holder, probe, trialRes, trialSaw, avail, wsPc, initResult,
                   wss, wssEvent, bindRes, vizPc, started, exitCode>>
    /\ UNCHANGED <<graphVars, bridgeVars, waitVars>>

\* process.on('SIGINT' | 'SIGTERM', cleanup)
SupSignal ==
    /\ supState = "running"
    /\ Cleanup("signal")

\* The MCP server process ends, for whatever reason.
McpExits ==
    /\ child[McpName] = "running"
    /\ child' = [child EXCEPT ![McpName] = "exited"]
    /\ childEvent' = [childEvent EXCEPT ![McpName] = "exit"]
    /\ \E c \in McpCodes : childCode' = [childCode EXCEPT ![McpName] = c]
    /\ UNCHANGED <<visualize, mcpPortHeld, supPc, supState, supExit, teardownBy,
                   processes, killed, killTried, killRaised>>
    /\ UNCHANGED <<portVars, graphVars, bridgeVars, waitVars>>

\* Mutant: the MCP server's exit is logged like the visualization's.
SupOnMcpExitLogOnly ==
    /\ supState = "running"
    /\ childEvent[McpName] = "exit"
    /\ childEvent' = [childEvent EXCEPT ![McpName] = "none"]
    /\ log' = [log EXCEPT ![Launcher] = @ \cup {"MCP server exited"}]
    /\ UNCHANGED <<visualize, mcpPortHeld, supPc, supState, supExit, teardownBy,
                   processes, child, childCode, killed, killTried, killRaised>>
    /\ UNCHANGED <<bindErr, holder, probe, trialRes, trialSaw, avail, wsPc, initResult,
                   wss, wssEvent, bindRes, vizPc, started, exitCode>>
    /\ UNCHANGED <<graphVars, bridgeVars, waitVars>>

\* mcpProcess.on('exit', ...): cleanup().
SupOnMcpExit ==
    /\ supState = "running"
    /\ childEvent[McpName] = "exit"
    /\ Cleanup("MCP server exit")

\* mcpProcess.on('error', ...): cleanup().
SupOnMcpError ==
    /\ supState = "running"
    /\ childEvent[McpName] = "error"
    /\ Cleanup("MCP server error")

\* Mutant: the visualization child's handlers shut everything down too.
SupOnVizEventCleanup(e) ==
    /\ supState = "running"
    /\ childEvent[VizName] = e
    /\ Cleanup(IF e = "exit" THEN "Visualization server exit"
               ELSE "Visualization server error")

\* visualizerProcess.on('error' | 'exit', ...): the event is logged.
SupOnVizEvent(e) ==
    /\ supState = "running"
    /\ childEvent[VizName] = e
    /\ childEvent' = [childEvent EXCEPT ![VizName] = "none"]
    /\ log' = [log EXCEPT ![Launcher] = @ \cup
                  {IF e = "exit" THEN "visualization exited"
                   ELSE "failed to start visualization"}]
    /\ UNCHANGED <<visualize, mcpPortHeld, supPc, supState, supExit, teardownBy,
                   processes, child, childCode, killed, killTried, killRaised>>
    /\ UNCHANGED <<bindErr, holder, probe, trialRes, trialSaw, avail, wsPc, initResult,
                   wss, wssEvent, bindRes, vizPc, started, exitCode>>
    /\ UNCHANGED <<graphVars, bridgeVars, waitVars>>

\* The visualization child is a running process whose main() has not ended.
VizChildAlive == child[VizName] = "running" /\ vizPc[VizChild] # "exited"

\* The visualization child has called process.exit: the launcher's 'exit'
\* event is queued with the child's code.
VizChildExits ==
    /\ child[VizName] = "running"
    /\ vizPc[VizChild] = "exited"
    /\ child' = [child EXCEPT ![VizName] = "exited"]
    /\ childEvent' = [childEvent EXCEPT ![VizName] = "exit"]
    /\ childCode' = [childCode EXCEPT ![VizName] = exitCode[VizChild]]
    /\ UNCHANGED <<visualize, mcpPortHeld, supPc, supState, supExit, teardownBy,
                   processes, killed, killTried, killRaised>>
    /\ UNCHANGED <<portVars, graphVars, bridgeVars, waitVars>>

\* SIGTERM sent by kill() reaches the visualization child, which has no
\* handler for it before main() registers one (line 43): the process ends.
VizChildTerminated ==
    /\ killed[VizName]
    /\ VizChildAlive
    /\ vizPc[VizChild] # "running"
    /\ vizPc' = [vizPc EXCEPT ![VizChild] = "exited"]
    /\ exitCode' = [exitCode EXCEPT ![VizChild] = 143]
    /\ holder' = ReleasedBy(holder, VizChild)
    /\ UNCHANGED <<bindErr, probe, trialRes, trialSaw, avail, wsPc, initResult, wss,
                   wssEvent, bindRes, started, log>>
    /\ UNCHANGED <<graphVars, bridgeVars, supVars, waitVars>>

(***************************************************************************)
(* waitForServerOnPort and canConnectToPort (port-checker.ts).             *)
(***************************************************************************)
MaxAttempts == 3

\* Mutant: one more turn of the loop.
LoopGoesOnInclusive(a, m) == a <= m

\* attempt < maxAttempts
LoopGoesOn(a, m) == a < m

\* The loop head with counter a: call canConnectToPort, or fall out of the
\* loop and return false.
LoopHead(a) ==
    /\ attempt' = a
    /\ IF LoopGoesOn(a, maxAttempts)
       THEN /\ waitPc' = "connecting"
            /\ connPc' = "pending"
            /\ timers' = timers \cup {a}
            /\ UNCHANGED waitResult
       ELSE /\ waitPc' = "done"
            /\ waitResult' = "false"
            /\ UNCHANGED <<connPc, timers>>

\* waitForServerOnPort(port, maxAttempts, intervalMs) is called.
WaitCall ==
    /\ waitPc = "idle"
    /\ LoopHead(0)
    /\ UNCHANGED <<maxAttempts, connResult, serving, outcomes>>
    /\ UNCHANGED <<portVars, graphVars, bridgeVars, supVars>>

\* The promise of the current attempt takes its first resolve().
ConnResolve(v) ==
    /\ connPc' = "resolved"
    /\ connResult' = v
    /\ outcomes' = Append(outcomes, v)

\* client.once('connect', ...): resolve(true).
ConnOnConnect ==
    /\ connPc = "pending"
    /\ serving
    /\ ConnResolve(TRUE)
    /\ UNCHANGED <<maxAttempts, attempt, waitPc, waitResult, timers, serving>>
    /\ UNCHANGED <<portVars, graphVars, bridgeVars, supVars>>

\* client.once('error', ...): resolve(false).
ConnOnError ==
    /\ connPc = "pending"
    /\ ~serving
    /\ ConnResolve(FALSE)
    /\ UNCHANGED <<maxAttempts, attempt, waitPc, waitResult, timers, serving>>
    /\ UNCHANGED <<portVars, graphVars, bridgeVars, supVars>>

\* The timer of attempt k fires: resolve(false), which counts only if the
\* promise is that of attempt k and is still pending.
ConnOnTimeout(k) ==
    /\ k \in timers
    /\ timers' = timers \ {k}
    /\ IF k = attempt /\ connPc = "pending"
       THEN ConnResolve(FALSE)
       ELSE UNCHANGED <<connPc, connResult, outcomes>>
    /\ UNCHANGED <<maxAttempts, attempt, waitPc, waitResult, serving>>
    /\ UNCHANGED <<portVars, graphVars, bridgeVars, supVars>>

\* After `await canConnectToPort(port)`: return true, or start the pause.
WaitAfterConnect ==
    /\ waitPc = "connecting"
    /\ connPc = "resolved"
    /\ connPc' = "idle"
    /\ IF connResult
       THEN waitPc' = "done" /\ waitResult' = "true"
       ELSE waitPc' = "sleeping" /\ UNCHANGED waitResult
    /\ UNCHANGED <<maxAttempts, attempt, connResult, timers, serving, outcomes>>
    /\ UNCHANGED <<portVars, graphVars, bridgeVars, supVars>>

\* The pause of intervalMs is over: attempt++ and the loop head again.
WaitAfterSleep ==
    /\ waitPc = "sleeping"
    /\ LoopHead(attempt + 1)
    /\ UNCHANGED <<maxAttempts, connResult, serving, outcomes>>
    /\ UNCHANGED <<portVars, graphVars, bridgeVars, supVars>>

\* A server starts or stops accepting connections on the port.
ServerToggles ==
    /\ waitPc # "done"
    /\ serving' = ~serving
    /\ UNCHANGED <<maxAttempts, attempt, waitPc, waitResult, connPc, connResult,
                   timers, outcomes>>
    /\ UNCHANGED <<portVars, graphVars, bridgeVars, supVars>>

(***************************************************************************)
(* Specifications.                                                         *)
(***************************************************************************)
PortInitWith(E) ==
    /\ bindErr \in E
    /\ holder = NoHolder
    /\ probe = [i \in Probers |-> "idle"]
    /\ trialRes = [i \in Probers |-> "none"]
    /\ trialSaw = [i \in Probers |-> NoHolder]
    /\ avail = [i \in Probers |-> FALSE]
    /\ wsPc = [i \in WsInst |-> "unstarted"]
    /\ initResult = [i \in WsInst |-> "none"]
    /\ wss = [i \in WsInst |-> "null"]
    /\ wssEvent = [i \in WsInst |-> "none"]
    /\ bindRes = [i \in Callers |-> "none"]
    /\ vizPc = [j \in VizProc |-> "unlaunched"]
    /\ started = [j \in VizProc |-> "unset"]
    /\ exitCode = [j \in VizProc |-> -1]
    /\ log = [i \in Probers |-> {}]

GraphInit ==
    /\ atoms = EmptyMap
    /\ atomOrder = <<>>
    /\ pubLog = <<>>
    /\ conn = [o \in Observers |-> "none"]
    /\ connAt = [o \in Observers |-> 0]
    /\ connState = [o \in Observers |-> [atoms |-> EmptyMap, atomOrder |-> <<>>]]
    /\ sent = [o \in Observers |-> <<>>]
    /\ recvd = [o \in Observers |-> 0]
    /\ pgAtoms = [o \in Observers |-> EmptyMap]
    /\ pgOrder = [o \in Observers |-> <<>>]
    /\ fetch = [o \in Observers |-> "none"]
    /\ fetchAt = [o \in Observers |-> 0]
    /\ fetchResp = [o \in Observers |-> Snapshot(EmptyMap, <<>>)]

BridgeInit ==
    /\ clients = <<>>
    /\ readyState = [c \in WsClients |-> "none"]
    /\ cliEvent = [c \in WsClients |-> "none"]
    /\ got = [c \in WsClients |-> <<>>]
    /\ sendCalls = 0
    /\ lastSend = [n |-> 0, msg |-> <<>>, targets |-> {}, failed |-> {},
                   raised |-> FALSE]
    /\ closeCalls = 0
    /\ closeSaw = "none"
    /\ hadEvent = {}
    /\ ctorResult = "none"

SupInitWith(V, H) ==
    /\ visualize \in V
    /\ mcpPortHeld \in H
    /\ supPc = "start"
    /\ supState = "running"
    /\ supExit = -1
    /\ teardownBy = "none"
    /\ processes = <<>>
    /\ child = [c \in Children |-> "none"]
    /\ childEvent = [c \in Children |-> "none"]
    /\ childCode = [c \in Children |-> -1]
    /\ killed = [c \in Children |-> FALSE]
    /\ killTried = [c \in Children |-> 0]
    /\ killRaised = {}

SupIdle == SupInitWith({FALSE}, {FALSE})

WaitInitWith(M) ==
    /\ maxAttempts \in M
    /\ attempt = 0
    /\ waitPc = "idle"
    /\ waitResult = "none"
    /\ connPc = "idle"
    /\ connResult = FALSE
    /\ timers = {}
    /\ serving \in BOOLEAN
    /\ outcomes = <<>>

WaitIdle == WaitInitWith({0}) /\ ~serving

Init == PortInitWith({"none", "EACCES", "ERR_SOCKET_BAD_PORT"}) /\ GraphInit /\ BridgeInit /\ SupIdle /\ WaitIdle

PortNext ==
    \/ \E i \in Callers : ProbeOnListening(i)
    \/ \E i \in Callers : ProbeOnClose(i)
    \/ \E i \in Callers : ProbeOnError(i)
    \/ \E i \in WsInst : WsInit(i)
    \/ \E i \in WsInst : WsAfterProbe(i)
    \/ \E i \in WsInst : WssOnListening(i)
    \/ \E i \in WsInst : WssOnError(i)
    \/ \E j \in VizProc : VizMain(j)
    \/ \E j \in VizProc : VizAfterProbe(j)
    \/ \E j \in VizProc : VizAfterStart(j)

SpecPort == Init /\ [][PortNext]_vars

GraphNext ==
    \/ \E a \in Atom : UpdateAtom(a)
    \/ \E o \in Pages : Connect(o)
    \/ \E o \in Pages : Disconnect(o)
    \/ \E o \in Pages : ApiAtoms(o)
    \/ \E o \in Pages : PageFetch(o)
    \/ \E o \in Pages : PageFetchThen(o)
    \/ \E o \in Pages : PageOnEvent(o)

InitGraph == PortInitWith({"none"}) /\ GraphInit /\ BridgeInit /\ SupIdle /\ WaitIdle

SpecGraph == InitGraph /\ [][GraphNext]_vars

BridgeNext ==
    \/ WsConstruct
    \/ WsInit(Bridge)
    \/ ProbeOnListening(Bridge)
    \/ ProbeOnClose(Bridge)
    \/ ProbeOnError(Bridge)
    \/ WsAfterProbe(Bridge)
    \/ WssOnListening(Bridge)
    \/ WssOnError(Bridge)
    \/ ExternalBinds
    \/ \E c \in WsClients : WssOnConnection(c)
    \/ \E c \in WsClients : PeerDrop(c)
    \/ \E c \in WsClients : ClientOnError(c)
    \/ \E c \in WsClients : ClientOnClose(c)
    \/ \E t \in MsgTypes, d \in MsgData : SendMessage(t, d)
    \/ WsClose

InitBridge == PortInitWith({"none"}) /\ GraphInit /\ BridgeInit /\ SupIdle /\ WaitIdle

SpecBridge == InitBridge /\ [][BridgeNext]_vars

SupNext ==
    \/ SupMain
    \/ supState = "running" /\ ProbeOnListening(Launcher)
    \/ supState = "running" /\ ProbeOnClose(Launcher)
    \/ supState = "running" /\ ProbeOnError(Launcher)
    \/ SupAfterProbe
    \/ SupAfterWait
    \/ SupSignal
    \/ McpExits
    \/ SupOnMcpExit
    \/ SupOnMcpError
    \/ \E e \in {"exit", "error"} : SupOnVizEvent(e)
    \/ VizChildAlive /\ VizMain(VizChild)
    \/ VizChildAlive /\ ProbeOnListening(VizChild)
    \/ VizChildAlive /\ ProbeOnClose(VizChild)
    \/ VizChildAlive /\ ProbeOnError(VizChild)
    \/ VizChildAlive /\ VizAfterProbe(VizChild)
    \/ VizChildAlive /\ VizAfterStart(VizChild)
    \/ VizChildExits
    \/ VizChildTerminated
    \/ ExternalBinds

InitSup ==
    /\ PortInitWith({"none", "ERR_SOCKET_BAD_PORT"})
    /\ GraphInit
    /\ BridgeInit
    /\ SupInitWith(BOOLEAN, BOOLEAN)
    /\ WaitIdle

SpecSup == InitSup /\ [][SupNext]_vars

\* The event loop runs a handler whose event is queued.
SpecSupFair == SpecSup /\ WF_vars(SupOnMcpExit)

WaitNext ==
    \/ WaitCall
    \/ ConnOnConnect
    \/ ConnOnError
    \/ \E k \in 0..MaxAttempts : ConnOnTimeout(k)
    \/ WaitAfterConnect
    \/ WaitAfterSleep
    \/ ServerToggles

InitWait ==
    /\ PortInitWith({"none"})
    /\ GraphInit
    /\ BridgeInit
    /\ SupIdle
    /\ WaitInitWith(0..MaxAttempts)

\* The caller makes the call, timers fire and continuations run.
WaitProgress ==
    \/ WaitCall
    \/ \E k \in 0..MaxAttempts : ConnOnTimeout(k)
    \/ WaitAfterConnect
    \/ WaitAfterSleep

SpecWait == InitWait /\ [][WaitNext]_vars /\ WF_vars(WaitProgress)

(***************************************************************************)
(* Claims about the port race (checked under SpecPort).                    *)
(***************************************************************************)
\* A contender that considers itself Running: init() returned true, or
\* visualize's main() went past its `if (!started)` check.
ConsidersRunning(i) ==
    IF i \in WsInst THEN initResult[i] = "true" ELSE vizPc[i] = "running"

\* A contender whose start attempt, with the events it queued, is over.
Finished(i) ==
    IF i \in WsInst THEN wsPc[i] = "returned" /\ wssEvent[i] = "none"
    ELSE vizPc[i] \in {"exited", "running"}

NeverStarted(i) ==
    IF i \in WsInst THEN wsPc[i] = "unstarted" ELSE vizPc[i] = "unlaunched"

\* C1: of any two contenders that start a Role Server on the same bindable
\* port, at most one considers itself Running.
C1_AtMostOneRunning ==
    bindErr = "none" =>
        \A a, b \in Callers :
            a # b => ~(ConsidersRunning(a) /\ ConsidersRunning(b))

\* C2: when exactly two contenders have started on the free port and both
\* start attempts are over, one of the two owns the port as its server.
C2_SomeoneOwnsPort ==
    bindErr = "none" =>
        \A a, b \in Callers :
            ( /\ a # b
              /\ Finished(a) /\ Finished(b)
              /\ \A c \in Callers \ {a, b} : NeverStarted(c) )
            => (holder = Sock(a, "server") \/ holder = Sock(b, "server"))

\* C3: a contender whose own bind failed with EADDRINUSE after its probe
\* said "available" ends Deferred: init() reports false; a visualize process
\* does not exit with an error.
C3_BindLoserDefers ==
    /\ \A i \in WsInst :
          (bindRes[i] = "EADDRINUSE" /\ wsPc[i] = "returned")
              => initResult[i] = "false"
    /\ \A j \in VizProc :
          (bindRes[j] = "EADDRINUSE" /\ vizPc[j] \in {"exited", "running"})
              => (vizPc[j] = "exited" /\ exitCode[j] = 0)

\* C4: start() reports true exactly when the instance holds the port bound:
\* init() returned true iff its server socket is the holder, and a visualize
\* process whose start is over is treated as Running iff its bind succeeded.
C4_StartReportsOwnership ==
    bindErr = "none" =>
        /\ \A i \in WsInst :
              wsPc[i] = "returned" =>
                  (initResult[i] = "true" <=> holder = Sock(i, "server"))
        /\ \A j \in VizProc :
              vizPc[j] \in {"exited", "running"} =>
                  (vizPc[j] = "running" <=> bindRes[j] = "ok")

\* C5: a visualize process whose probe found the port held by another
\* instance gets "unavailable" from the probe, never binds a socket of its
\* own, never runs, and if it has exited its exit code is 0.
C5_LateGraphServerDefers ==
    \A j \in VizProc :
        trialSaw[j] # NoHolder =>
            /\ probe[j] = "resolved" => ~avail[j]
            /\ bindRes[j] = "none"
            /\ vizPc[j] \in {"probing", "exited"}
            /\ vizPc[j] = "exited" => exitCode[j] = 0

\* Witness of C5: a WebSocketServer owns the port, a visualize process
\* launched afterwards probed it as taken and has exited with code 0.
C5_Witness ==
    \E j \in VizProc, i \in WsInst :
        /\ trialSaw[j] = Sock(i, "server")
        /\ holder = Sock(i, "server")
        /\ vizPc[j] = "exited"
        /\ exitCode[j] = 0
        /\ bindRes[j] = "none"

(***************************************************************************)
(* Claims about the graph state and its observers (checked under           *)
(* SpecGraph).                                                             *)
(***************************************************************************)
Range(seq) == {seq[k] : k \in 1..Len(seq)}

NoDup(seq) == \A i, j \in 1..Len(seq) : i # j => seq[i] # seq[j]

IdsIn(hist) == {hist[k].atomId : k \in 1..Len(hist)}

\* The last atom of a publish history that carries the given id.
LatestIn(hist, id) ==
    hist[CHOOSE k \in 1..Len(hist) :
            /\ hist[k].atomId = id
            /\ \A m \in (k + 1)..Len(hist) : hist[m].atomId # id]

LatestSet(hist) == {LatestIn(hist, id) : id \in IdsIn(hist)}

\* C6: atomOrder holds every key of atoms exactly once and nothing else.
C6_OrderMatchesKeys ==
    /\ NoDup(atomOrder)
    /\ Range(atomOrder) = DOMAIN atoms
    /\ \A k \in DOMAIN atoms : atoms[k].atomId = k

\* Witness of C6: three publishes, one of them a repeat of a known id.
C6_Witness ==
    /\ Len(pubLog) = 3
    /\ Cardinality(IdsIn(pubLog)) = 2
    /\ Len(atomOrder) = 2

\* C7: publishing an atom whose id is stored replaces the stored atom by the
\* published one (content and dependencies), keeps every other entry and
\* leaves atomOrder as it was.
C7_RepublishReplaces ==
    [][ \A a \in Atom :
          (pubLog' = Append(pubLog, a) /\ a.atomId \in DOMAIN atoms) =>
              /\ DOMAIN atoms' = DOMAIN atoms
              /\ atoms'[a.atomId] = a
              /\ \A k \in DOMAIN atoms \ {a.atomId} : atoms'[k] = atoms[k]
              /\ atomOrder' = atomOrder ]_vars

\* Witness of C7: an id was published twice with different content and
\* different dependencies; the store holds the later atom, the order one id.
C7_Witness ==
    /\ Len(pubLog) = 2
    /\ pubLog[1].atomId = pubLog[2].atomId
    /\ pubLog[1].content # pubLog[2].content
    /\ pubLog[1].dependencies # pubLog[2].dependencies
    /\ atoms[pubLog[2].atomId] = pubLog[2]
    /\ Len(atomOrder) = 1

\* A snapshot taken after the publish history hist: the latest version of
\* each of its N distinct ids, and an order of length N without duplicates.
SnapshotOf(s, hist) ==
    /\ s.atoms = LatestSet(hist)
    /\ Cardinality(s.atoms) = Cardinality(IdsIn(hist))
    /\ Len(s.atomOrder) = Cardinality(IdsIn(hist))
    /\ NoDup(s.atomOrder)
    /\ Range(s.atomOrder) = IdsIn(hist)

\* C8: the initial 'atoms-update' of a connection, and the /api/atoms
\* response, hold exactly the atoms published before, each in its latest
\* version, and an order of as many ids without duplicates.
C8_SnapshotComplete ==
    \A o \in Observers :
        /\ conn[o] # "none" =>
              /\ Len(sent[o]) >= 1
              /\ sent[o][1].type = "atoms-update"
              /\ SnapshotOf(sent[o][1].data, SubSeq(pubLog, 1, connAt[o]))
        /\ fetch[o] \in {"responded", "done"} =>
              SnapshotOf(fetchResp[o], SubSeq(pubLog, 1, fetchAt[o]))

\* Witness of C8: an observer connected after three publishes of two ids,
\* and fetched /api/atoms after at least two publishes.
C8_Witness ==
    \E o \in Observers :
        /\ conn[o] = "open"
        /\ connAt[o] = 3
        /\ Cardinality(IdsIn(pubLog)) = 2
        /\ fetch[o] = "responded"
        /\ fetchAt[o] >= 2

AtomUpdates(msgs) == SelectSeq(msgs, LAMBDA m : m.type = "atom-update")

\* C9: on a connection the first message is the snapshot of the graph state
\* at accept time and the only snapshot; the single-atom updates on it are
\* the atoms published since, in publish order, none from before; while the
\* connection is open none is missing; the page handles them in that order.
C9_SnapshotThenLiveTail ==
    \A o \in Observers :
        conn[o] # "none" =>
            LET msgs == sent[o]
                ups == AtomUpdates(msgs)
            IN  /\ Len(msgs) >= 1
                /\ msgs[1].type = "atoms-update"
                /\ msgs[1].data.atoms = Values(connState[o].atoms)
                /\ msgs[1].data.atomOrder = connState[o].atomOrder
                /\ \A k \in 2..Len(msgs) : msgs[k].type # "atoms-update"
                /\ connAt[o] + Len(ups) <= Len(pubLog)
                /\ \A k \in 1..Len(ups) : ups[k].data = pubLog[connAt[o] + k]
                /\ conn[o] = "open" => connAt[o] + Len(ups) = Len(pubLog)
                /\ recvd[o] <= Len(msgs)

\* Witness of C9: a connection accepted after one publish has been sent two
\* later publishes, and its page has handled every message.
C9_Witness ==
    \E o \in Observers :
        /\ conn[o] = "open"
        /\ connAt[o] = 1
        /\ Len(pubLog) = 3
        /\ recvd[o] = Len(sent[o])

\* C10: once everything in flight has been handled (the fetch response and
\* every socket event), the page's atoms and order equal the server's.
C10_ObserverConverged ==
    \A o \in Pages :
        (conn[o] = "open" /\ recvd[o] = Len(sent[o]) /\ fetch[o] = "done")
            => (pgAtoms[o] = atoms /\ pgOrder[o] = atomOrder)

\* A dependency of a stored atom that names no stored atom.
Dangling(m, d) == d \notin DOMAIN m

\* C11: updateAtom accepts every atom, whatever its dependencies name; the
\* stored dependency list is the published one; a dependency is dangling
\* exactly while no atom with its id has been published; the page draws a
\* link for a dependency exactly when it holds the atom the dependency names.
C11_DanglingTolerated ==
    /\ \A a \in Atom : Len(pubLog) < MaxPublish => ENABLED UpdateAtom(a)
    /\ \A k \in DOMAIN atoms :
          /\ atoms[k].dependencies = LatestIn(pubLog, k).dependencies
          /\ \A d \in Range(atoms[k].dependencies) :
                Dangling(atoms, d) <=> d \notin IdsIn(pubLog)
    /\ \A o \in Pages :
          \A k \in DOMAIN pgAtoms[o] :
              \A d \in Range(pgAtoms[o][k].dependencies) :
                  [source |-> d, target |-> k] \in Links(pgAtoms[o])
                      <=> ~Dangling(pgAtoms[o], d)

\* Witness of C11: a1 was published depending on a2 before any a2 existed,
\* then a2 was published; a1 is stored as published, was not republished,
\* and its dependency now names a stored atom.
C11_Witness ==
    /\ Len(pubLog) = 2
    /\ pubLog[1].atomId = "a1"
    /\ pubLog[1].dependencies = <<"a2">>
    /\ pubLog[2].atomId = "a2"
    /\ atoms["a1"] = pubLog[1]
    /\ ~Dangling(atoms, "a2")

Tracked == Range(processes)

TeardownCauses == {"signal", "MCP server exit", "MCP server error"}

\* C13: when the launcher has exited, kill() has been called on every
\* tracked child, whether or not the kill() of a child tracked before it
\* raised; a child that was not sent the signal is one that had ended or
\* whose own kill() raised.
C13_CleanupReachesEveryChild ==
    supState = "exited" =>
        \A p \in Tracked :
            /\ killTried[p] >= 1
            /\ ~killed[p] => (child[p] # "running" \/ p \in killRaised)

\* Witness of C13: both children are tracked, the kill() of the MCP server
\* (first in the array) raised, and the visualization child was sent the
\* signal all the same.
C13_Witness ==
    /\ supState = "exited"
    /\ processes = <<McpName, VizName>>
    /\ McpName \in killRaised
    /\ killed[VizName]

\* C14: once the MCP server child has ended, the launcher's handler for it
\* is queued while the launcher runs, and the launcher ends up exited; a
\* teardown caused by that exit leaves the launcher exited with code 0 and
\* kill() called on every other tracked child; no visualization child of an
\* exited launcher is without a kill() call.
C14_McpExitTearsDown ==
    /\ [] ( /\ (child[McpName] = "exited" /\ supState = "running")
                  => childEvent[McpName] = "exit"
            /\ teardownBy = "MCP server exit" =>
                  /\ supState = "exited"
                  /\ supExit = 0
                  /\ \A p \in Tracked \ {McpName} : killTried[p] >= 1
            /\ (supState = "exited" /\ child[VizName] # "none")
                  => killTried[VizName] >= 1 )
    /\ (child[McpName] = "exited") ~> (supState = "exited")

\* Witness of C14: the MCP server ended with code 1 while the visualization
\* child was running; the launcher tore down for that reason and sent the
\* visualization child the signal.
C14_Witness ==
    /\ teardownBy = "MCP server exit"
    /\ childCode[McpName] = 1
    /\ child[VizName] = "running"
    /\ killed[VizName]
    /\ supState = "exited"

\* C15: the launcher never tears down because of the visualization child:
\* cleanup() is only ever entered for a signal or for the MCP server, and the
\* MCP server child has no kill() call while the launcher runs.
C15_VizFailureIsNotFatal ==
    /\ teardownBy \in TeardownCauses \cup {"none"}
    /\ supState = "exited" <=> teardownBy \in TeardownCauses
    /\ supState = "running" => (killTried[McpName] = 0 /\ ~killed[McpName])

\* Witness of C15: the visualization child has exited and its 'exit' event
\* has been handled; the launcher and the MCP server both run.
C15_Witness ==
    /\ child[VizName] \in {"exited", "failed"}
    /\ childEvent[VizName] = "none"
    /\ supState = "running"
    /\ child[McpName] = "running"
    /\ killTried[McpName] = 0

\* C16: a child of either role exists only if its role's port was probed
\* and found available; an unavailable port means no child of that role and
\* a logged reuse.
C16_ProbeBeforeSpawn ==
    /\ child[VizName] # "none" => (probe[Launcher] = "resolved" /\ avail[Launcher])
    /\ (supPc = "done" /\ probe[Launcher] = "resolved" /\ ~avail[Launcher])
          => (child[VizName] = "none" /\ "will reuse" \in log[Launcher])
    /\ child[McpName] # "none" => ~mcpPortHeld

\* C17: without --visualize the launcher makes no probe of the
\* visualization port and has no visualization child, free port or not.
C17_NoVisualizeNoProbe ==
    ~visualize =>
        /\ probe[Launcher] = "idle"
        /\ child[VizName] = "none"
        /\ VizName \notin Tracked
        /\ vizPc[VizChild] = "unlaunched"

\* Witness of C17: main() has finished without --visualize while the
\* visualization port was free.
C17_Witness ==
    /\ ~visualize
    /\ supPc = "done"
    /\ holder = NoHolder
    /\ child[McpName] = "running"

\* C18: after a close() call that found a server, the instance no longer
\* holds the port and no accepted connection is open.
C18_StopClosesEverything ==
    closeSaw = "server" =>
        /\ holder # Sock(Bridge, "server")
        /\ \A c \in WsClients : readyState[c] # "OPEN"

(***************************************************************************)
(* Claims about isPortAvailable (checked under SpecPort).                  *)
(***************************************************************************)
\* C19: a call of isPortAvailable ends by reporting one value, never by
\* raising, and the value is false exactly when the trial bind failed with
\* EADDRINUSE: true after a successful bind and after any other failure.
C19_ProbeVerdict ==
    \A i \in Probers :
        /\ probe[i] # "rejected"
        /\ probe[i] = "resolved" => (avail[i] <=> trialRes[i] # "EADDRINUSE")

C21_ExitCodesTellFailure ==
    /\ (supState = "exited" /\ supExit = 0)
          => teardownBy \in {"signal", "MCP server exit"}
    /\ (supState = "exited" /\ teardownBy = "MCP server error") => supExit # 0
    /\ (vizPc[VizChild] = "exited" /\ exitCode[VizChild] = 0)
          => (probe[VizChild] = "resolved" /\ ~avail[VizChild])
    /\ (vizPc[VizChild] = "exited" /\ bindRes[VizChild] \notin {"none", "ok"})
          => exitCode[VizChild] # 0

(***************************************************************************)
(* Further claims about the graph state (checked under SpecGraph).         *)
(***************************************************************************)
IsPrefix(p, q) == Len(p) <= Len(q) /\ SubSeq(q, 1, Len(p)) = p

\* C22: every step leaves the old atomOrder as a prefix of the new one; a
\* publish appends the atom's id if the id was not in the order and leaves
\* the order as it was otherwise.
C22_OrderAppendOnly ==
    [][ /\ IsPrefix(atomOrder, atomOrder')
        /\ \A a \in Atom :
              pubLog' = Append(pubLog, a) =>
                  atomOrder' = IF a.atomId \in Range(atomOrder) THEN atomOrder
                               ELSE Append(atomOrder, a.atomId) ]_vars

\* Witness of C22: a1 then a2 were published, then a1 again; the order is
\* still a1, a2.
C22_Witness ==
    /\ Len(pubLog) = 3
    /\ pubLog[1].atomId = "a1"
    /\ pubLog[2].atomId = "a2"
    /\ pubLog[3].atomId = "a1"
    /\ atomOrder = <<"a1", "a2">>

RECURSIVE FirstSeen(_)
\* The ids of a publish history in the order of their first publish.
FirstSeen(hist) ==
    IF hist = <<>> THEN <<>>
    ELSE LET rest == FirstSeen(SubSeq(hist, 1, Len(hist) - 1))
             id == hist[Len(hist)].atomId
         IN  IF id \in Range(rest) THEN rest ELSE Append(rest, id)

\* C23: what a connection has been sent is its snapshot followed by one pair
\* per publish made since it was accepted, pair after pair in publish
\* order: the 'atom-update' with the published atom, then the 'atoms-order'
\* with the order as it is after that publish; an open connection has the
\* pair of every such publish.
C23_TwoNotificationsPerPublish ==
    \A o \in Observers :
        conn[o] # "none" =>
            LET msgs == sent[o]
                n == (Len(msgs) - 1) \div 2
            IN  /\ Len(msgs) = 1 + 2 * n
                /\ msgs[1].type = "atoms-update"
                /\ connAt[o] + n <= Len(pubLog)
                /\ conn[o] = "open" => connAt[o] + n = Len(pubLog)
                /\ \A k \in 1..n :
                      /\ msgs[2 * k].type = "atom-update"
                      /\ msgs[2 * k].data = pubLog[connAt[o] + k]
                      /\ msgs[2 * k + 1].type = "atoms-order"
                      /\ msgs[2 * k + 1].data =
                            FirstSeen(SubSeq(pubLog, 1, connAt[o] + k))

\* Witness of C23: a connection accepted before any publish has been sent
\* the pairs of two publishes of different ids.
C23_Witness ==
    \E o \in Observers :
        /\ conn[o] = "open"
        /\ connAt[o] = 0
        /\ Len(pubLog) = 2
        /\ Len(atomOrder) = 2
        /\ Len(sent[o]) = 5

(***************************************************************************)
(* Further claims about the WebSocketServer (checked under SpecBridge).    *)
(***************************************************************************)
\* C24: this.clients holds, once each, exactly the sockets that were
\* accepted and whose 'close' or 'error' handler has not run; no step sends
\* a frame to a socket whose handler has run.
C24_RegistryIsLiveConnections ==
    /\ [] ( /\ NoDup(clients)
            /\ Range(clients) =
                  {c \in WsClients : readyState[c] # "none"} \ hadEvent )
    /\ [][ \A c \in hadEvent : got'[c] = got[c] ]_vars

\* Witness of C24: k1 and k2 were registered and sent a frame; k1 had its
\* 'error' event; a second sendMessage reached k2 only.
C24_Witness ==
    /\ "k1" \in hadEvent
    /\ clients = <<"k2">>
    /\ sendCalls = 2
    /\ Len(got["k1"]) = 1
    /\ Len(got["k2"]) = 2

(***************************************************************************)
(* Further claims about isPortAvailable (checked under SpecPort).          *)
(***************************************************************************)
\* C25: a caller holds its trial socket only between the trial listen and
\* the 'listening' handler, never once its call has reported; and no step
\* of a call takes the port from another owner that holds it.
C25_ProbeLeavesPortAsFound ==
    /\ [] ( \A i \in Probers :
                /\ holder = Sock(i, "probe") => probe[i] = "bound"
                /\ probe[i] = "resolved" => holder # Sock(i, "probe") )
    /\ [][ \A i \in Probers :
              (probe'[i] # probe[i] /\ holder # NoHolder /\ holder.owner # i)
                  => holder' = holder ]_vars

\* Witness of C25: a WebSocketServer's probe bound, closed and reported
\* true, its own bind right after succeeded; a second instance then probed
\* the port, was told it is taken, and the first still holds it.
C25_Witness ==
    \E i, j \in WsInst :
        /\ i # j
        /\ trialRes[i] = "ok"
        /\ avail[i]
        /\ bindRes[i] = "ok"
        /\ trialSaw[j] = Sock(i, "server")
        /\ probe[j] = "resolved"
        /\ ~avail[j]
        /\ holder = Sock(i, "server")

\* C26: constructing a WebSocketServer raises nothing; an instance whose
\* init() returned false has no server and no registered client, has sent
\* no frame, and its sendMessage and close calls raised nothing and found
\* no server to close.
C26_UnstartedStaysUsable ==
    /\ ctorResult # "TypeError"
    /\ initResult[Bridge] = "false" =>
          /\ wss[Bridge] = "null"
          /\ clients = <<>>
          /\ \A c \in WsClients : got[c] = <<>>
          /\ ~lastSend.raised
          /\ closeSaw \in {"none", "null"}

\* C27: a Graph Server process to which SIGTERM or SIGINT was sent never
\* ends by the signal's default disposition (status 143): when it is gone,
\* it left through its own process.exit, which for a delivered signal is the
\* exit(0) that follows stop() in its cleanup handler.
C27_SignalRunsStopThenExitsZero ==
    (killed[VizName] /\ vizPc[VizChild] = "exited") => exitCode[VizChild] # 143

\* C28: the step in which the launcher announces that the visualization is
\* available is taken only while the Graph Server child it forked is
\* Running: the child has not deferred, lost the bind, or exited.
C28_AnnouncesOnlyRunningChild ==
    [][ ("visualization available" \notin log[Launcher]
            /\ "visualization available" \in log'[Launcher])
        => (child[VizName] = "running" /\ vizPc[VizChild] = "running") ]_vars

\* A role decided to defer to, or reuse, the instance it takes to be serving
\* its port: the launcher (part_000:125-129) or visualize.ts (20-25).
Deferred(i) == log[i] \cap {"will reuse", "will exit"} # {}

\* C29: a role that found its port in use and decided to defer or reuse has
\* made a connection attempt (canConnectToPort, whose only call site is the
\* loop of waitForServerOnPort) before that decision.
C29_DeferralVerifiedByConnect ==
    \A i \in {Launcher, VizChild} :
        Deferred(i) => (connPc # "idle" \/ outcomes # <<>>)

====
